---- MODULE Spec2Model ----
(***************************************************************************)
(* State-machine model of train_ee.py: the AverageMeter accumulator, the   *)
(* run-directory initialiser, the checkpoint loader, the evaluation        *)
(* routine, the epoch loop with its best-checkpoint retention, and the     *)
(* fold loop of the entry point.                                           *)
(*                                                                         *)
(* Strings (paths, file names) are sequences of character codes, so that   *)
(* formatting a file name and parsing it back are two different            *)
(* computations.  Real numbers (accuracies, averages) are exact fractions  *)
(* <<numerator, denominator>> with a positive denominator.                 *)
(***************************************************************************)
EXTENDS Integers, Sequences, FiniteSets, TLC

\* ------------------------------------------------------------------ bounds
MaxRuns == 3
MaxFold == 2
MaxEpoch == 2
TrainLen == 1
ValidLen == 2
TestLen == 1
MaxUpdates == 3
MaxWeight == 2

\* ------------------------------------------------------- numbers and text
Frac(n, d) == <<n, d>>

Zero == Frac(0, 1)

Leq(a, b) == a[1] * b[2] <= b[1] * a[2]

RatEq(a, b) == a[1] * b[2] = b[1] * a[2]

RECURSIVE Digits(_)
Digits(n) == IF n < 10 THEN <<48 + n>> ELSE Digits(n \div 10) \o <<48 + (n % 10)>>

Pad4(k) ==
  <<48 + ((k \div 1000) % 10), 48 + ((k \div 100) % 10), 48 + ((k \div 10) % 10), 48 + (k % 10)>>

\* '{:.4f}'.format(x): x rounded to four decimals
Format4f(x) ==
  LET e4 == (2 * 10000 * x[1] + x[2]) \div (2 * x[2])
  IN  Digits(e4 \div 10000) \o <<46>> \o Pad4(e4 % 10000)

IsDigit(c) == c >= 48 /\ c <= 57

RECURSIVE SplitDash0(_)
\* s.split('-')[0]
SplitDash0(s) ==
  IF s = <<>> \/ Head(s) = 45 THEN <<>> ELSE <<Head(s)>> \o SplitDash0(Tail(s))

RECURSIVE IntOf(_)
\* int(s) of a non-empty string of decimal digits
IntOf(s) == IF Len(s) = 1 THEN s[1] - 48 ELSE 10 * IntOf(SubSeq(s, 1, Len(s) - 1)) + (s[Len(s)] - 48)

IsNumeric(s) == s # <<>> /\ \A i \in 1..Len(s) : IsDigit(s[i])

RECURSIVE LastSlash(_)
LastSlash(p) == IF p = <<>> THEN 0 ELSE IF p[Len(p)] = 47 THEN Len(p) ELSE LastSlash(SubSeq(p, 1, Len(p) - 1))

\* os.path.basename
basename(p) == SubSeq(p, LastSlash(p) + 1, Len(p))

dirname(p) == SubSeq(p, 1, LastSlash(p) - 1)

EndsWith(s, suf) == Len(s) >= Len(suf) /\ SubSeq(s, Len(s) - Len(suf) + 1, Len(s)) = suf

DotPt == <<46, 112, 116>>

LogTxt == <<108, 111, 103, 46, 116, 120, 116>>

\* f'{args.name}-{args.loss}' and f'{name}/{args.dataset}', shortened to one letter each
NameDir == <<69>>

DatasetDir == NameDir \o <<47, 77>>

\* '{}/{}/{}'.format(name, args.dataset, fold)
FoldDir(f) == DatasetDir \o <<47>> \o Digits(f)

\* '{}/{}-{:.4f}.pt'.format(save_path, epoch, test_acc)
CkptPath(save_path, e, test_acc) ==
  save_path \o <<47>> \o Digits(e) \o <<45>> \o Format4f(test_acc) \o DotPt

\* ------------------------------------------------------------ AverageMeter
reset(m) == [val |-> 0, avg |-> Zero, sum |-> 0, count |-> 0]

\* update with the weight left out of the sum
updateNoWeight(m, val, n) ==
  LET s == m.sum + val
      c == m.count + n
  IN  [val |-> val, avg |-> Frac(s, c), sum |-> s, count |-> c]

update(m, val, n) ==
  LET s == m.sum + val * n
      c == m.count + n
  IN  [val |-> val, avg |-> Frac(s, c), sum |-> s, count |-> c]

NewMeter == reset([val |-> 0, avg |-> Zero, sum |-> 0, count |-> 0])

\* ------------------------------------------------------------------- data
Splits == {"valid", "test"}

\* len(dataset[split])
DatasetLen(split) == IF split = "train" THEN TrainLen ELSE IF split = "valid" THEN ValidLen ELSE TestLen

\* args.batch_size: every batch holds one example
BatchSize == 1

\* number of batches a DataLoader yields
NumBatches(len) == (len + BatchSize - 1) \div BatchSize

BatchItems(len, b) ==
  {i \in 1..len : i > (b - 1) * BatchSize /\ i <= b * BatchSize}

\* The network's parameters, up to what they decide: how many examples of each
\* evaluation split the network classifies correctly in inference mode.
Params == {p \in [Splits -> 0..(ValidLen + TestLen)] : \A l \in Splits : p[l] <= DatasetLen(l)}

\* One forward pass and loss computation on batch b of a split: the possible
\* outcomes.  In inference mode the outcome is a function of the parameters and
\* the batch; in training mode (dropout, batch statistics) it is not, and the
\* state the checkpoint records may move.
Forward(m, split, b) ==
  LET items == BatchItems(DatasetLen(split), b)
  IN  IF m.training
      THEN {[correct |-> c, loss |-> Cardinality(items) - c, params |-> p] :
              c \in 0..Cardinality(items), p \in Params}
      ELSE LET c == Cardinality({i \in items : i <= m.params[split]})
           IN  {[correct |-> c, loss |-> Cardinality(items) - c, params |-> m.params]}

\* ------------------------------------------------------------------ state
VARIABLES
  args,            \* the parsed command line
  run,             \* how many times the script has been started
  pc,              \* the position of the running process
  fold,            \* the loop variable of the entry point
  calls,           \* the calls the entry point has made so far (this process)
  dirs,            \* the directories that exist
  fs,              \* the files that exist: [path, epoch], epoch being the 'epoch' key of a checkpoint
  log,             \* the lines logged by this process
  model,           \* the network: its parameters and its training flag
  start_epoch,     \* what get_model returned
  sel,             \* the file get_model picked
  epoch, best_acc, file_name, train_loss_clf, correct, batch, acc, valid, tst,
  ev,              \* the locals of a running test() call
  retval,          \* what the last test() call returned
  last,            \* per loader, what test() returned since the last training step
  ran,             \* the epochs the current train() call has started
  hist,            \* the validation accuracy of each of them
  steps,           \* the steps the current epoch has taken
  snap,            \* checkpoints and bookkeeping when the current epoch started
  entry,           \* the checkpoints of the fold and the length of the log when train() was entered
  crashpc,         \* where the process was when it died
  updates          \* the updates made to train_loss_clf since its last reset

fsys == <<dirs, fs>>

mainv == <<fold, calls, start_epoch, sel>>

trainv == <<epoch, best_acc, file_name, train_loss_clf, correct, batch, acc, valid, tst>>

testv == <<ev, retval, last>>

ghostv == <<ran, hist, steps, snap, entry, crashpc>>

vars == <<args, run, pc, log, model, fsys, mainv, trainv, testv, ghostv, updates>>

NoFile == [path |-> <<>>, epoch |-> -1]

NoResult == <<>>

NoLast == [l \in Splits |-> NoResult]

NoEv == [loader |-> "", ret |-> "", i |-> 0, test_loss |-> NewMeter, correct |-> 0,
         visited |-> <<>>, again |-> FALSE]

NoSnap == [files |-> {}, best_acc |-> Zero, file_name |-> <<>>]

NoEntry == [files |-> {}, loglen |-> 0]

Line(kind, f, e) == [kind |-> kind, fold |-> f, epoch |-> e]

\* os.path.exists for a file
exists(p) == \E e \in fs : e.path = p

\* the entries glob('{}/*.pt'.format(pth)) matches
Matches(pth) == {e \in fs : dirname(e.path) = pth /\ EndsWith(basename(e.path), DotPt)}

\* glob returns the matches as a list in the order the directory lists them,
\* which nothing fixes
glob(pth) ==
  LET m == Matches(pth)
      n == Cardinality(m)
  IN  {l \in [1..n -> m] : \A i, j \in 1..n : i # j => l[i] # l[j]}

\* nothing has been called yet
Idle ==
  /\ fold = args.start
  /\ calls = <<>>
  /\ log = <<>>
  /\ start_epoch = 0
  /\ sel = NoFile
  /\ train_loss_clf = NewMeter
  /\ correct = 0
  /\ batch = 0
  /\ acc = Zero
  /\ valid = <<Zero, Zero>>
  /\ tst = <<Zero, Zero>>
  /\ ev = NoEv
  /\ retval = <<Zero, Zero>>
  /\ last = NoLast
  /\ ran = <<>>
  /\ hist = <<>>
  /\ steps = <<>>
  /\ snap = NoSnap
  /\ entry = NoEntry
  /\ crashpc = ""
  /\ updates = <<>>

\* the memory of a freshly started process
Fresh ==
  /\ Idle
  /\ model = [params |-> [l \in Splits |-> 0], training |-> TRUE]
  /\ epoch = 0
  /\ best_acc = Zero
  /\ file_name = <<>>

\* the command lines: --resume, --epoch, --start, --end
Args == {a \in [resume : BOOLEAN, epoch : 0..MaxEpoch, start : 0..MaxFold, end : 0..MaxFold] :
           a.start <= a.end}

\* the first start of the script, in an empty working directory
InitWith(a) ==
  /\ args = a
  /\ run = 1
  /\ dirs = {}
  /\ fs = {}
  /\ pc = "for_fold"
  /\ Fresh

\* the script run on a range of at most one fold
Init == \E a \in Args : a.start = 0 /\ a.end <= 1 /\ InitWith(a)

\* the script run once on any range of folds, for at most one epoch
InitFolds == \E a \in Args : a.epoch <= 1 /\ InitWith(a)

\* the memory of the process is gone (it exited, or it is started afresh)
MemoryGone ==
  /\ model' = [params |-> [l \in Splits |-> 0], training |-> TRUE]
  /\ start_epoch' = 0
  /\ sel' = NoFile
  /\ epoch' = 0
  /\ best_acc' = Zero
  /\ file_name' = <<>>
  /\ train_loss_clf' = NewMeter
  /\ correct' = 0
  /\ batch' = 0
  /\ acc' = Zero
  /\ valid' = <<Zero, Zero>>
  /\ tst' = <<Zero, Zero>>
  /\ ev' = NoEv
  /\ retval' = <<Zero, Zero>>
  /\ last' = NoLast
  /\ ran' = <<>>
  /\ hist' = <<>>
  /\ steps' = <<>>
  /\ entry' = NoEntry

\* ------------------------------------------------------------ entry point
\* the range with its end included
FoldInRangeIncl(f, a) == f <= a.end

\* range(args.start, args.end)
FoldInRange(f, a) == f < a.end

\* the loop header of line 210; when the range is exhausted the process exits
ForFold ==
  /\ pc = "for_fold"
  /\ IF FoldInRange(fold, args)
     THEN /\ pc' = "init_path"
          /\ UNCHANGED <<model, start_epoch, sel, trainv, testv, ran, hist, steps, entry>>
     ELSE /\ pc' = "done"
          /\ MemoryGone
  /\ UNCHANGED <<args, run, log, fsys, fold, calls, snap, crashpc, updates>>

init_path ==
  /\ pc = "init_path"
  /\ LET savepaths == <<NameDir, DatasetDir, FoldDir(fold)>>
         save_path == savepaths[Len(savepaths)]
         logfile == save_path \o <<47>> \o LogTxt
     IN  /\ dirs' = dirs \cup {savepaths[i] : i \in {j \in 1..Len(savepaths) : savepaths[j] \notin dirs}}
         /\ fs' = IF exists(logfile) THEN fs ELSE fs \cup {[path |-> logfile, epoch |-> -1]}
  /\ log' = Append(log, Line("args", fold, -1))
  /\ calls' = Append(calls, <<"init_path", fold>>)
  /\ pc' = "get_model"
  /\ UNCHANGED <<args, run, model, fold, start_epoch, sel, trainv, testv, ghostv, updates>>

\* the epoch of the file itself
ResumeEpochSame(file) == IntOf(SplitDash0(basename(file)))

\* int(os.path.basename(file).split('-')[0]) + 1
ResumeEpoch(file) == IntOf(SplitDash0(basename(file))) + 1

\* The parameters a checkpoint file holds are not part of the model of the file
\* system: the parameters after loading, like freshly initialised ones, are any.
get_model ==
  /\ pc = "get_model"
  /\ calls' = Append(calls, <<"get_model", fold>>)
  /\ \E files \in glob(FoldDir(fold)), p \in Params :
       /\ model' = [params |-> p, training |-> TRUE]
       /\ IF args.resume /\ files # <<>>
          THEN LET file == files[Len(files)]
               IN  IF IsNumeric(SplitDash0(basename(file.path)))
                   THEN /\ start_epoch' = ResumeEpoch(file.path)
                        /\ sel' = file
                        /\ log' = Append(log, Line("load", fold, ResumeEpoch(file.path) - 1))
                        /\ pc' = "get_dataset"
                        /\ UNCHANGED crashpc
                   ELSE /\ pc' = "crashed"
                        /\ crashpc' = pc
                        /\ UNCHANGED <<start_epoch, sel, log>>
          ELSE /\ start_epoch' = 0
               /\ sel' = NoFile
               /\ pc' = "get_dataset"
               /\ UNCHANGED <<log, crashpc>>
  /\ UNCHANGED <<args, run, fsys, fold, trainv, testv, ran, hist, steps, snap, entry, updates>>

get_dataset ==
  /\ pc = "get_dataset"
  /\ calls' = Append(calls, <<"get_dataset", fold>>)
  /\ pc' = "train"
  /\ UNCHANGED <<args, run, log, model, fsys, fold, start_epoch, sel, trainv, testv, ghostv, updates>>

NextFold ==
  /\ pc = "train_ret"
  /\ fold' = fold + 1
  /\ pc' = "for_fold"
  /\ UNCHANGED <<args, run, log, model, fsys, calls, start_epoch, sel, trainv, testv, ghostv, updates>>

\* ------------------------------------------------------------- test()
\* the call without model.eval()
TestEnterNoEval(loader, ret) ==
  /\ model' = model
  /\ ev' = [loader |-> loader, ret |-> ret, i |-> 1, test_loss |-> NewMeter, correct |-> 0,
            visited |-> <<>>, again |-> last[loader] # NoResult]
  /\ pc' = "test_loop"

\* lines 93-97 of a call test(model, loader) that returns to `ret`
TestEnter(loader, ret) ==
  /\ model' = [model EXCEPT !.training = FALSE]
  /\ ev' = [loader |-> loader, ret |-> ret, i |-> 1, test_loss |-> NewMeter, correct |-> 0,
            visited |-> <<>>, again |-> last[loader] # NoResult]
  /\ pc' = "test_loop"

\* one iteration of the loop over the loader
TestBatch ==
  /\ pc = "test_loop"
  /\ ev.i <= NumBatches(DatasetLen(ev.loader))
  /\ \E out \in Forward(model, ev.loader, ev.i) :
       /\ model' = [model EXCEPT !.params = out.params]
       /\ ev' = [ev EXCEPT !.i = @ + 1,
                           !.test_loss = update(@, out.loss, 1),
                           !.correct = @ + out.correct,
                           !.visited = Append(@, ev.i)]
  /\ UNCHANGED <<args, run, pc, log, fsys, mainv, trainv, retval, last, ghostv, updates>>

\* the loader is exhausted: acc = 100. * correct / len_target_dataset; return acc, test_loss.avg
TestReturn ==
  /\ pc = "test_loop"
  /\ ev.i > NumBatches(DatasetLen(ev.loader))
  /\ retval' = <<Frac(100 * ev.correct, DatasetLen(ev.loader)), ev.test_loss.avg>>
  /\ last' = [last EXCEPT ![ev.loader] = retval']
  /\ pc' = ev.ret
  /\ ev' = [NoEv EXCEPT !.loader = ev.loader, !.visited = ev.visited, !.again = ev.again]
  /\ UNCHANGED <<args, run, log, model, fsys, mainv, trainv, ghostv, updates>>

\* ------------------------------------------------------------- train()
\* lines 136-150
TrainSetup ==
  /\ pc = "train"
  /\ calls' = Append(calls, <<"train", fold>>)
  /\ best_acc' = Zero
  /\ file_name' = <<>>
  /\ train_loss_clf' = NewMeter
  /\ log' = Append(log, Line("weight", fold, -1))
  /\ epoch' = start_epoch
  /\ ran' = <<>>
  /\ hist' = <<>>
  /\ steps' = <<>>
  /\ snap' = NoSnap
  /\ entry' = [files |-> Matches(FoldDir(fold)), loglen |-> Len(log)]
  /\ pc' = "for_epoch"
  /\ UNCHANGED <<args, run, model, fsys, fold, start_epoch, sel, correct, batch, acc, valid, tst,
                 testv, crashpc, updates>>

\* the range with its end included
EpochInRangeIncl(e, a) == e <= a.epoch

\* range(start_epoch, args.epoch)
EpochInRange(e, a) == e < a.epoch

\* the loop header of line 152; when the range is exhausted train returns and its locals die
ForEpoch ==
  /\ pc = "for_epoch"
  /\ IF EpochInRange(epoch, args)
     THEN /\ pc' = "epoch_start"
          /\ UNCHANGED <<calls, trainv>>
     ELSE /\ pc' = "train_ret"
          /\ calls' = Append(calls, <<"return", fold>>)
          /\ epoch' = 0
          /\ best_acc' = Zero
          /\ file_name' = <<>>
          /\ train_loss_clf' = NewMeter
          /\ correct' = 0
          /\ batch' = 0
          /\ acc' = Zero
          /\ valid' = <<Zero, Zero>>
          /\ tst' = <<Zero, Zero>>
  /\ UNCHANGED <<args, run, log, model, fsys, fold, start_epoch, sel, testv, ghostv, updates>>

\* lines 153-155
EpochStart ==
  /\ pc = "epoch_start"
  /\ model' = [model EXCEPT !.training = TRUE]
  /\ train_loss_clf' = reset(train_loss_clf)
  /\ correct' = 0
  /\ batch' = 1
  /\ ran' = Append(ran, epoch)
  /\ steps' = <<"train_mode", "reset">>
  /\ snap' = [files |-> Matches(FoldDir(fold)), best_acc |-> best_acc, file_name |-> file_name]
  /\ pc' = "batch"
  /\ UNCHANGED <<args, run, log, fsys, mainv, epoch, best_acc, file_name, acc, valid, tst,
                 testv, hist, entry, crashpc, updates>>

\* one iteration of lines 157-170: forward, loss, backward, optimizer step
TrainBatch ==
  /\ pc = "batch"
  /\ batch <= NumBatches(DatasetLen("train"))
  /\ \E out \in Forward(model, "train", batch) :
       /\ model' = [model EXCEPT !.params = out.params]
       /\ correct' = correct + out.correct
       /\ train_loss_clf' = update(train_loss_clf, out.loss, 1)
  /\ batch' = batch + 1
  /\ steps' = Append(steps, "batch")
  /\ last' = NoLast
  /\ UNCHANGED <<args, run, pc, log, fsys, mainv, epoch, best_acc, file_name, acc, valid, tst,
                 ev, retval, ran, hist, snap, entry, crashpc, updates>>

\* lines 171-174: the training accuracy, then the call test(model, valid_loader)
Validate ==
  /\ pc = "batch"
  /\ batch > NumBatches(DatasetLen("train"))
  /\ acc' = Frac(100 * correct, DatasetLen("train"))
  /\ TestEnter("valid", "after_valid")
  /\ UNCHANGED <<args, run, log, fsys, mainv, epoch, best_acc, file_name, train_loss_clf, correct,
                 batch, valid, tst, retval, last, ghostv, updates>>

\* lines 174-176: valid_acc, valid_loss are bound, then the call test(model, test_loader)
Test ==
  /\ pc = "after_valid"
  /\ valid' = retval
  /\ steps' = Append(steps, "valid")
  /\ TestEnter("test", "after_test")
  /\ UNCHANGED <<args, run, log, fsys, mainv, epoch, best_acc, file_name, train_loss_clf, correct,
                 batch, acc, tst, retval, last, ran, hist, snap, entry, crashpc, updates>>

\* best_acc < valid_acc
QualifiesStrict(best, valid_acc) == ~Leq(valid_acc, best)

\* best_acc <= valid_acc
Qualifies(best, valid_acc) == Leq(best, valid_acc)

\* lines 176-181: test_acc, test_loss are bound, then the comparison
Decide ==
  /\ pc = "after_test"
  /\ tst' = retval
  /\ steps' = steps \o <<"test", "decide">>
  /\ hist' = Append(hist, <<epoch, valid[1]>>)
  /\ IF Qualifies(best_acc, valid[1])
     THEN /\ best_acc' = valid[1]
          /\ pc' = "remove"
     ELSE /\ pc' = "log"
          /\ UNCHANGED best_acc
  /\ UNCHANGED <<args, run, log, model, fsys, mainv, epoch, file_name, train_loss_clf, correct,
                 batch, acc, valid, testv, ran, snap, entry, crashpc, updates>>

\* lines 182-183
Remove ==
  /\ pc = "remove"
  /\ fs' = IF file_name # <<>> /\ exists(file_name) THEN {e \in fs : e.path # file_name} ELSE fs
  /\ pc' = "save"
  /\ UNCHANGED <<args, run, log, model, dirs, mainv, trainv, testv, ghostv, updates>>

\* lines 184-185
Save ==
  /\ pc = "save"
  /\ file_name' = CkptPath(FoldDir(fold), epoch, tst[1])
  /\ fs' = {e \in fs : e.path # file_name'} \cup {[path |-> file_name', epoch |-> epoch]}
  /\ pc' = "log"
  /\ UNCHANGED <<args, run, log, model, dirs, mainv, epoch, best_acc, train_loss_clf, correct,
                 batch, acc, valid, tst, testv, ghostv, updates>>

\* line 187, and the step of the loop variable
Log ==
  /\ pc = "log"
  /\ log' = Append(log, Line("epoch", fold, epoch))
  /\ steps' = Append(steps, "log")
  /\ epoch' = epoch + 1
  /\ pc' = "for_epoch"
  /\ UNCHANGED <<args, run, model, fsys, mainv, best_acc, file_name, train_loss_clf, correct,
                 batch, acc, valid, tst, testv, ran, hist, snap, entry, crashpc, updates>>

\* where a tensor, device or I/O error can be raised; nothing catches it
CanRaise == {"batch", "test_loop", "remove", "save"}

\* the error caught and the epoch skipped
CrashContinue ==
  /\ pc \in CanRaise
  /\ crashpc' = pc
  /\ pc' = "log"
  /\ UNCHANGED <<args, run, log, model, fsys, mainv, trainv, testv, ran, hist, steps, snap, entry, updates>>

\* the error ends the process
Crash ==
  /\ pc \in CanRaise
  /\ crashpc' = pc
  /\ pc' = "crashed"
  /\ MemoryGone
  /\ UNCHANGED <<args, run, log, fsys, fold, calls, snap, updates>>

\* the script is started again with the same command line, for the n-th time at most
Start(n) ==
  /\ pc \in {"done", "crashed"}
  /\ run < n
  /\ run' = run + 1
  /\ pc' = "for_fold"
  /\ fold' = args.start
  /\ calls' = <<>>
  /\ log' = <<>>
  /\ MemoryGone
  /\ snap' = NoSnap
  /\ crashpc' = ""
  /\ UNCHANGED <<args, fsys, updates>>

\* a second start
Restart == Start(2)

\* any later start
RestartAgain == Start(MaxRuns)

Next ==
  \/ ForFold
  \/ init_path
  \/ get_model
  \/ get_dataset
  \/ TrainSetup
  \/ ForEpoch
  \/ EpochStart
  \/ TrainBatch
  \/ Validate
  \/ TestBatch
  \/ TestReturn
  \/ Test
  \/ Decide
  \/ Remove
  \/ Save
  \/ Log
  \/ NextFold
  \/ Crash
  \/ Restart

\* the script started in an empty working directory, then once more
Spec == Init /\ [][Next]_vars

NextReruns ==
  \/ ForFold
  \/ init_path
  \/ get_model
  \/ get_dataset
  \/ TrainSetup
  \/ ForEpoch
  \/ EpochStart
  \/ TrainBatch
  \/ Validate
  \/ TestBatch
  \/ TestReturn
  \/ Test
  \/ Decide
  \/ Remove
  \/ Save
  \/ Log
  \/ NextFold
  \/ Crash
  \/ RestartAgain

\* the script started in an empty working directory, then again and again
SpecReruns == Init /\ [][NextReruns]_vars

NextFolds ==
  \/ ForFold
  \/ init_path
  \/ get_model
  \/ get_dataset
  \/ TrainSetup
  \/ ForEpoch
  \/ EpochStart
  \/ TrainBatch
  \/ Validate
  \/ TestBatch
  \/ TestReturn
  \/ Test
  \/ Decide
  \/ Remove
  \/ Save
  \/ Log
  \/ NextFold
  \/ Crash

SpecFolds == InitFolds /\ [][NextFolds]_vars

\* ------------------------------------------- test() called again and again
\* the process stands between two calls of test(); the training bookkeeping
\* holds either nothing or one saved checkpoint
InitTest ==
  /\ args = [resume |-> TRUE, epoch |-> MaxEpoch, start |-> 0, end |-> 1]
  /\ run = 1
  /\ dirs = {NameDir, DatasetDir, FoldDir(0)}
  /\ Idle
  /\ \E saved \in BOOLEAN, e \in 0..(MaxEpoch - 1), m \in [params : Params, training : BOOLEAN] :
       LET f == CkptPath(FoldDir(0), 0, Frac(100, TestLen))
           logfile == [path |-> FoldDir(0) \o <<47>> \o LogTxt, epoch |-> -1]
       IN  /\ saved => e >= 1
           /\ fs = IF saved THEN {logfile, [path |-> f, epoch |-> 0]} ELSE {logfile}
           /\ file_name = IF saved THEN f ELSE <<>>
           /\ best_acc = IF saved THEN Frac(100, ValidLen) ELSE Zero
           /\ epoch = e
           /\ model = m
           /\ pc = "harness"

\* a call test(model, loader)
HarnessCall(loader) ==
  /\ pc = "harness"
  /\ TestEnter(loader, "harness")
  /\ UNCHANGED <<args, run, log, fsys, mainv, trainv, retval, last, ghostv, updates>>

\* one training step between two calls: training mode, then an optimizer step
HarnessTrain ==
  /\ pc = "harness"
  /\ \E p \in Params : model' = [params |-> p, training |-> TRUE]
  /\ last' = NoLast
  /\ UNCHANGED <<args, run, pc, log, fsys, mainv, trainv, ev, retval, ghostv, updates>>

NextTest ==
  \/ \E loader \in Splits : HarnessCall(loader)
  \/ HarnessTrain
  \/ TestBatch
  \/ TestReturn

SpecTest == InitTest /\ [][NextTest]_vars

\* --------------------------------------------- AverageMeter on its own
MeterVals == 0..2

InitMeter ==
  /\ args = [resume |-> TRUE, epoch |-> 0, start |-> 0, end |-> 0]
  /\ run = 1
  /\ dirs = {}
  /\ fs = {}
  /\ Fresh
  /\ pc = "meter"

MeterReset ==
  /\ pc = "meter"
  /\ train_loss_clf' = reset(train_loss_clf)
  /\ updates' = <<>>
  /\ UNCHANGED <<args, run, pc, log, model, fsys, mainv, epoch, best_acc, file_name, correct, batch,
                 acc, valid, tst, testv, ghostv>>

MeterUpdate ==
  /\ pc = "meter"
  /\ Len(updates) < MaxUpdates
  /\ \E val \in MeterVals, n \in 1..MaxWeight :
       /\ train_loss_clf' = update(train_loss_clf, val, n)
       /\ updates' = Append(updates, <<val, n>>)
  /\ UNCHANGED <<args, run, pc, log, model, fsys, mainv, epoch, best_acc, file_name, correct, batch,
                 acc, valid, tst, testv, ghostv>>

NextMeter == MeterReset \/ MeterUpdate

SpecMeter == InitMeter /\ [][NextMeter]_vars

\* ================================================================ claims
\* what the claims are stated with
InTrain == {"for_epoch", "epoch_start", "batch", "test_loop", "after_valid", "after_test",
            "remove", "save", "log"}

Ckpts(f) == Matches(FoldDir(f))

IsPrefix(a, b) == Len(a) <= Len(b) /\ a = SubSeq(b, 1, Len(a))

RECURSIVE MaxAcc(_)
MaxAcc(h) ==
  IF h = <<>> THEN Zero
  ELSE LET m == MaxAcc(SubSeq(h, 1, Len(h) - 1))
           x == h[Len(h)][2]
       IN  IF Leq(m, x) THEN x ELSE m

\* the latest epoch of h whose validation accuracy no epoch of h exceeds
BestEpoch(h) ==
  LET best == {i \in 1..Len(h) : \A j \in 1..Len(h) : Leq(h[j][2], h[i][2])}
      i == CHOOSE k \in best : \A j \in best : j <= k
  IN  h[i][1]

RECURSIVE LexLess(_, _)
LexLess(a, b) ==
  IF b = <<>> THEN FALSE
  ELSE IF a = <<>> THEN TRUE
  ELSE IF Head(a) # Head(b) THEN Head(a) < Head(b)
  ELSE LexLess(Tail(a), Tail(b))

LexLast(S) == CHOOSE x \in S : \A y \in S : y = x \/ LexLess(y, x)

RECURSIVE SumVW(_)
SumVW(u) == IF u = <<>> THEN 0 ELSE SumVW(SubSeq(u, 1, Len(u) - 1)) + u[Len(u)][1] * u[Len(u)][2]

RECURSIVE SumW(_)
SumW(u) == IF u = <<>> THEN 0 ELSE SumW(SubSeq(u, 1, Len(u) - 1)) + u[Len(u)][2]

RECURSIVE ExpectedCalls(_, _)
ExpectedCalls(f, last_) ==
  IF f >= last_ THEN <<>>
  ELSE <<<<"init_path", f>>, <<"get_model", f>>, <<"get_dataset", f>>, <<"train", f>>, <<"return", f>>>>
       \o ExpectedCalls(f + 1, last_)

FoldDirs == dirs \ {NameDir, DatasetDir}

ExpectedSteps ==
  <<"train_mode", "reset">> \o [i \in 1..NumBatches(DatasetLen("train")) |-> "batch"]
  \o <<"valid", "test", "decide", "log">>

\* the lines train() has logged since it was entered
TrainLines == SubSeq(log, entry.loglen + 1, Len(log))

\* the lines train() is to log once it has completed the epochs of `ran`
ExpectedLines == <<Line("weight", fold, -1)>> \o [i \in 1..Len(ran) |-> Line("epoch", fold, ran[i])]

\* C1: at every point of a fold's processing, in a directory that started empty
\* or is being resumed from an earlier run's checkpoint, the fold's run
\* directory holds at most one checkpoint (.pt) file.
C1_AtMostOneCheckpoint ==
  args.resume => \A f \in 0..MaxFold : Cardinality(Ckpts(f)) <= 1

\* C2: when train returns after running N >= 1 epochs, exactly one checkpoint
\* file exists in the run directory, and the epoch in its name is the latest
\* epoch at which the maximum validation accuracy was observed.
C2_OneBestCheckpoint ==
  (args.resume /\ pc = "train_ret" /\ ran # <<>>) =>
    /\ Cardinality(Ckpts(fold)) = 1
    /\ \A e \in Ckpts(fold) : IntOf(SplitDash0(basename(e.path))) = BestEpoch(hist)

\* C3: get_model returns start_epoch = E + 1 when resume is requested and the
\* directory holds a checkpoint, E being the epoch the picked checkpoint was
\* saved at, and 0 when resume is not requested or there is no checkpoint; the
\* first epoch train then runs is start_epoch.
C3_ResumeEpoch ==
  /\ pc \in {"get_dataset", "train"} =>
       IF args.resume /\ Ckpts(fold) # {}
       THEN sel \in Ckpts(fold) /\ start_epoch = sel.epoch + 1
       ELSE sel = NoFile /\ start_epoch = 0
  /\ (pc \in InTrain \cup {"train_ret"} /\ ran # <<>>) =>
       /\ ran[1] = start_epoch
       /\ sel # NoFile => ran[1] = sel.epoch + 1

C3_Witness ==
  /\ pc = "batch"
  /\ sel # NoFile
  /\ ran = <<sel.epoch + 1>>
  /\ start_epoch >= 1

\* C4: the entry point makes, for the folds start..end-1 in ascending order and
\* each once, the calls init_path, get_model, get_dataset, train, the next
\* fold's init_path only after train has returned; when it is done there are
\* exactly end - start fold directories, those of the range.
C4_FoldOrder ==
  /\ IsPrefix(calls, ExpectedCalls(args.start, args.end))
  /\ FoldDirs \subseteq {FoldDir(f) : f \in args.start..(args.end - 1)}
  /\ pc = "done" =>
       /\ calls = ExpectedCalls(args.start, args.end)
       /\ FoldDirs = {FoldDir(f) : f \in args.start..(args.end - 1)}
       /\ Cardinality(FoldDirs) = args.end - args.start

C4_Witness ==
  /\ pc = "done"
  /\ args.end - args.start >= 2
  /\ Len(calls) = 5 * (args.end - args.start)

\* C5: after reset() and a non-empty sequence of update(value, weight) calls
\* with positive weights, sum is the sum of value*weight, count the sum of the
\* weights and avg their quotient; after reset() alone val, avg, sum and count
\* are 0, whatever was updated before.
C5_MeterAverage ==
  pc = "meter" =>
    IF updates = <<>>
    THEN /\ train_loss_clf.val = 0
         /\ train_loss_clf.sum = 0
         /\ train_loss_clf.count = 0
         /\ train_loss_clf.avg = Zero
    ELSE /\ train_loss_clf.sum = SumVW(updates)
         /\ train_loss_clf.count = SumW(updates)
         /\ train_loss_clf.count > 0
         /\ RatEq(train_loss_clf.avg, Frac(SumVW(updates), SumW(updates)))
         /\ train_loss_clf.val = updates[Len(updates)][1]

C5_Witness ==
  /\ pc = "meter"
  /\ Len(updates) >= 2
  /\ updates[1][2] # updates[2][2]
  /\ updates[1][1] # updates[2][1]
  /\ train_loss_clf.sum > train_loss_clf.count

\* C6: test(model, loader) changes neither the parameters nor the checkpoint
\* files nor best_acc, file_name and epoch; it visits the batches of the
\* loader once each, in order; and a call that follows a call on the same
\* loader with no training step in between returns the same (accuracy, loss).
C6_TestFrame ==
  /\ [](pc = "test_loop" => ev.visited = [i \in 1..(ev.i - 1) |-> i])
  /\ [][(pc = "test_loop" \/ pc' = "test_loop") =>
          /\ model'.params = model.params
          /\ fs' = fs
          /\ <<best_acc, file_name, epoch>>' = <<best_acc, file_name, epoch>>]_vars
  /\ [][(pc = "test_loop" /\ pc' # "test_loop") =>
          /\ ev'.visited = [i \in 1..NumBatches(DatasetLen(ev.loader)) |-> i]
          /\ ev.again => retval' = last[ev.loader]]_vars

C6_Witness ==
  /\ pc = "harness"
  /\ ev.again
  /\ ev.loader = "valid"
  /\ Len(ev.visited) >= 2
  /\ retval = last["valid"]
  /\ retval[1][1] > 0
  /\ file_name # <<>>

\* C7: when the checkpoint decision of an epoch is complete: if the validation
\* accuracy was >= the best so far (0 at first, so the first epoch run
\* qualifies), best is that accuracy, the file this train call saved before is
\* gone, and the file '{epoch}-{test_acc}.pt' exists and is the recorded one;
\* otherwise files, best and the recorded name are as before.  best is always
\* the maximum validation accuracy of the epochs decided so far.
C7_Decision ==
  /\ pc \in InTrain => best_acc = MaxAcc(hist)
  /\ pc = "log" =>
       LET new == CkptPath(FoldDir(fold), epoch, tst[1])
       IN  IF Leq(snap.best_acc, valid[1])
           THEN /\ best_acc = valid[1]
                /\ file_name = new
                /\ Ckpts(fold) = {e \in snap.files : e.path \notin {snap.file_name, new}}
                                   \cup {[path |-> new, epoch |-> epoch]}
                /\ snap.file_name # <<>> => ~exists(snap.file_name)
           ELSE /\ best_acc = snap.best_acc
                /\ file_name = snap.file_name
                /\ Ckpts(fold) = snap.files
  /\ (pc = "log" /\ Len(hist) = 1) => exists(file_name)

C7_Witness ==
  /\ pc = "log"
  /\ snap.file_name # <<>>
  /\ snap.best_acc[1] > 0
  /\ valid[1] = snap.best_acc
  /\ file_name # snap.file_name
  /\ exists(file_name)

\* C8: when resume is requested and the directory holds more than one
\* checkpoint, get_model picks the lexicographically last of the names the
\* '*.pt' pattern matches and takes the resumption epoch from its prefix
\* before the first '-'.
C8_LexLast ==
  (pc = "get_dataset" /\ args.resume /\ Cardinality(Ckpts(fold)) > 1) =>
    /\ sel.path = LexLast({e.path : e \in Ckpts(fold)})
    /\ start_epoch = IntOf(SplitDash0(basename(sel.path))) + 1

\* what holds of every train call, whether or not an epoch runs: the epochs
\* started are start_epoch, start_epoch + 1, ... below args.epoch, the steps of
\* an epoch come in the fixed order, and on return every epoch of the range has run
C9_Epochs ==
  /\ pc \in InTrain \cup {"train_ret"} =>
       /\ \A i \in 1..Len(ran) : ran[i] = start_epoch + i - 1 /\ ran[i] < args.epoch
       /\ IsPrefix(steps, ExpectedSteps)
  /\ pc = "for_epoch" /\ ran # <<>> => steps = ExpectedSteps
  /\ pc = "train_ret" =>
       /\ Len(ran) = IF args.epoch > start_epoch THEN args.epoch - start_epoch ELSE 0
       /\ ran # <<>> => steps = ExpectedSteps

\* C9 as stated: ... and if start_epoch >= args.epoch, no epoch runs, train
\* emits no log line and creates or deletes no checkpoint file.
C9_Original ==
  /\ C9_Epochs
  /\ (pc = "train_ret" /\ start_epoch >= args.epoch) =>
       /\ ran = <<>>
       /\ TrainLines = <<>>
       /\ Ckpts(fold) = entry.files

\* C9, amended: train runs exactly the epochs start_epoch..args.epoch-1, once
\* each and in ascending order, each epoch in the order training mode and
\* reset, all training batches, validation, test, decision, one log line; the
\* lines it logs are its weight/mode line and then one line per epoch.  If
\* start_epoch >= args.epoch no epoch runs, only the weight/mode line is
\* logged and no checkpoint file is created or deleted.
C9_EpochLoop ==
  /\ C9_Epochs
  /\ pc = "train_ret" => TrainLines = ExpectedLines
  /\ (pc = "train_ret" /\ start_epoch >= args.epoch) =>
       /\ ran = <<>>
       /\ TrainLines = <<Line("weight", fold, -1)>>
       /\ Ckpts(fold) = entry.files

C9_Witness ==
  /\ pc = "train_ret"
  /\ Len(ran) >= 2
  /\ ran[1] = start_epoch
  /\ Len(TrainLines) = Len(ran) + 1

\* C10: before the checkpoint decision of an epoch (in a training batch, in
\* the validation or the test evaluation) the checkpoint files of the fold are
\* those of the start of the epoch, and they still are when the process dies
\* there; once it has died nothing more runs: no retry, no later epoch.
C10_CrashKeepsFiles ==
  /\ pc \in {"batch", "test_loop"} => Ckpts(fold) = snap.files
  /\ crashpc # "" => pc = "crashed"
  /\ (pc = "crashed" /\ crashpc \in {"batch", "test_loop"}) => Ckpts(fold) = snap.files

C10_Witness ==
  /\ pc = "crashed"
  /\ crashpc = "test_loop"
  /\ snap.files # {}
  /\ Ckpts(fold) = snap.files

====
